---- MODULE Spec2Model ----
(***************************************************************************)
(* The cooperative single-threaded executor of                             *)
(* internals_of_the_async_await_pattern_from_first_principles.py:          *)
(* the Executor (ready queue, timer queue, read/write wait tables, current *)
(* marker), its run() loop, the suspension primitives, the demo coroutines *)
(* foo, bar, tcp_server and echo_handler, and the sockets and the clock    *)
(* they run against.                                                       *)
(***************************************************************************)
EXTENDS Integers, Sequences, FiniteSets, TLC

\* ---------------------------------------------------------------- bounds
NTasks == 3        \* coroutines of the generic workload
NConns == 3        \* client connections of the echo service (handles 1..NConns)
NHandles == 2      \* connections the generic coroutines use (handles 1..NHandles)
MaxSleep == 1      \* longest duration a generic coroutine sleeps
MaxSteps == 1      \* suspensions a generic coroutine makes before it must end
MaxTime == 3       \* the clock advances freely up to here
MaxSends == 2      \* chunks the clients send, all connections together

\* ------------------------------------------------------ program constants
None == 0          \* Python's None, for a task reference
NoTimeout == -1    \* timeout = None: select blocks indefinitely
SleepDuration == 1 \* async_sleep(1) in foo and bar
MaxBytes == 10000  \* executor.recv(sock, 10000)
Listener == 0      \* the handle of server_sock
FooTask == 1       \* the coroutine object foo()
BarTask == 2       \* the coroutine object bar()
ServerTask == 1    \* the coroutine object tcp_server(), when it runs alone

EchoPrefix == <<101, 99, 104, 111, 32>>   \* b'echo '
Chunks == {<<104, 105>>}                  \* what a client sends: b'hi'

Max(a, b) == IF a >= b THEN a ELSE b
Min(a, b) == IF a <= b THEN a ELSE b
Conns == 1..Max(NConns, NHandles)
EchoConns == 1..NConns
GenConns == 1..NHandles
Tasks == 1..Max(NTasks, NConns + 1)
GenTasks == 1..NTasks

VARIABLES
    executor,   \* the Executor object: current, _ready, _scheduled, _read_pending, _write_pending
    pc,         \* where the launcher / run() stands
    timeout,    \* run()'s local timeout while it is inside select
    poll_start, \* the clock when that timeout was computed
    clock,      \* time.time()
    task,       \* every coroutine object: its code, cursor and locals
    to_launch,  \* the coroutines the launcher still has to submit
    backlog,    \* connections waiting in the listening socket's accept queue
    conn,       \* the connections: state, bytes in flight, what the server wrote
    output,     \* what foo and bar printed
    submitted,  \* history: coroutines in the order of their first submit call
    finished,   \* history: coroutines in the order they completed
    suspended,  \* history: whether any coroutine ever yielded
    displaced   \* history: coroutines whose wait-table entry was overwritten

vars == <<executor, pc, timeout, poll_start, clock, task, to_launch, backlog, conn,
          output, submitted, finished, suspended, displaced>>

\* ------------------------------------------------------------- sequences
Range(s) == {s[i] : i \in DOMAIN s}
Take(s, n) == SubSeq(s, 1, Min(n, Len(s)))
Drop(s, n) == SubSeq(s, Min(n, Len(s)) + 1, Len(s))
Front(s) == SubSeq(s, 1, Len(s) - 1)
Last(s) == s[Len(s)]
IsPrefix(s, t) == Len(s) <= Len(t) /\ SubSeq(t, 1, Len(s)) = s
Index(s, x) == CHOOSE i \in DOMAIN s : s[i] = x
Count(s, x) == Cardinality({i \in DOMAIN s : s[i] = x})

\* A dict is the sequence of its <<key, value>> items in insertion order.
DictKeys(d) == [i \in DOMAIN d |-> d[i][1]]
DictHas(d, k) == \E i \in DOMAIN d : d[i][1] = k
DictGet(d, k) == d[CHOOSE i \in DOMAIN d : d[i][1] = k][2]
DictValues(d) == [i \in DOMAIN d |-> d[i][2]]
\* Fault variant of d[k] = v: an existing key keeps its value (setdefault).
DictSet_KeepsFirst(d, k, v) == IF DictHas(d, k) THEN d ELSE Append(d, <<k, v>>)

\* d[k] = v: an existing key keeps its place, a new key goes last.
DictSet(d, k, v) ==
    IF DictHas(d, k)
    THEN [i \in DOMAIN d |-> IF d[i][1] = k THEN <<k, v>> ELSE d[i]]
    ELSE Append(d, <<k, v>>)
RECURSIVE DictPop(_, _)
DictPop(d, k) ==
    IF d = <<>> THEN <<>>
    ELSE IF Head(d)[1] = k THEN Tail(d)
    ELSE <<Head(d)>> \o DictPop(Tail(d), k)

\* sorted(items, key=itemgetter(0)): a stable sort by the first component.
RECURSIVE InsertByKey(_, _)
InsertByKey(s, e) ==
    IF s = <<>> THEN <<e>>
    ELSE IF Head(s)[1] <= e[1] THEN <<Head(s)>> \o InsertByKey(Tail(s), e)
    ELSE <<e>> \o s
RECURSIVE sorted(_)
sorted(s) == IF s = <<>> THEN <<>> ELSE InsertByKey(sorted(Front(s)), Last(s))

\* ----------------------------------------------------------------- Executor
NewExecutor ==
    [current |-> None, _ready |-> <<>>, _scheduled |-> <<>>,
     _read_pending |-> <<>>, _write_pending |-> <<>>]

\* Fault variant of submit: the coroutine is put at the head of the queue.
submit_AtHead(ex, coroutine) == [ex EXCEPT !._ready = <<coroutine>> \o @]

submit(ex, coroutine) == [ex EXCEPT !._ready = Append(@, coroutine)]

\* Fault variant of schedule: the entry is appended and the deque not re-sorted.
schedule_Unsorted(ex, timestamp, coroutine) ==
    [ex EXCEPT !._scheduled = Append(@, <<timestamp, coroutine>>)]

schedule(ex, timestamp, coroutine) ==
    [ex EXCEPT !._scheduled = sorted(Append(@, <<timestamp, coroutine>>))]

wait_for_write(ex, handle, coroutine) ==
    [ex EXCEPT !._write_pending = DictSet(@, handle, coroutine)]

\* The part of each primitive that runs before its await YieldOnAwait().
accept(ex, sock) ==
    [ex EXCEPT !._read_pending = DictSet(@, sock, ex.current), !.current = None]

\* Fault variant of recv: the current marker is not cleared.
recv_KeepsCurrent(ex, sock) ==
    [ex EXCEPT !._read_pending = DictSet(@, sock, ex.current)]

recv(ex, sock) ==
    [ex EXCEPT !._read_pending = DictSet(@, sock, ex.current), !.current = None]

send(ex, sock) == [wait_for_write(ex, sock, ex.current) EXCEPT !.current = None]

async_sleep(ex, now, duration) ==
    [schedule(ex, now + duration, ex.current) EXCEPT !.current = None]

\* Fault variant of the loop condition: the write-wait table is not tested.
AnyPending_NoWriteTable(ex) ==
    \/ ex._ready # <<>>
    \/ ex._scheduled # <<>>
    \/ ex._read_pending # <<>>

\* The condition of run()'s while loop.
AnyPending(ex) ==
    \/ ex._ready # <<>>
    \/ ex._scheduled # <<>>
    \/ ex._read_pending # <<>>
    \/ ex._write_pending # <<>>

\* Fault variant of the timeout: select is always told to block indefinitely.
Timeout_Never(ex, now) == NoTimeout

\* run()'s timeout for select.
Timeout(ex, now) ==
    IF ex._scheduled # <<>> THEN Max(0, ex._scheduled[1][1] - now) ELSE NoTimeout

\* ------------------------------------------------------ sockets and select
\* A listening socket is readable when a connection waits to be accepted, a
\* connection when bytes are buffered or the peer has closed (level-triggered).
ReadReady(handle) ==
    IF handle = Listener THEN backlog # <<>>
    ELSE conn[handle].inbuf # <<>> \/ conn[handle].eof

\* A connection is writable while its send buffer has room.
WriteReady(handle) == handle # Listener /\ ~conn[handle].full

\* Fault variant of select: it may come back early, with nothing ready and the
\* timeout not elapsed.
SelectReturns_Early(ex) == TRUE

\* select(rlist, wlist, [], timeout) returns when a watched handle is ready or
\* the timeout has elapsed; timeout None never elapses.
SelectReturns(ex) ==
    \/ \E i \in DOMAIN ex._read_pending : ReadReady(ex._read_pending[i][1])
    \/ \E i \in DOMAIN ex._write_pending : WriteReady(ex._write_pending[i][1])
    \/ timeout # NoTimeout /\ clock >= poll_start + timeout

\* Fault variant of the loop over read_ready: the entry is read, not popped.
RECURSIVE SubmitReadReady_NoPop(_, _)
SubmitReadReady_NoPop(ex, handles) ==
    IF handles = <<>> THEN ex
    ELSE SubmitReadReady_NoPop(submit(ex, DictGet(ex._read_pending, Head(handles))),
                               Tail(handles))

\* for handle in read_ready: self.submit(self._read_pending.pop(handle))
RECURSIVE SubmitReadReady(_, _)
SubmitReadReady(ex, handles) ==
    IF handles = <<>> THEN ex
    ELSE SubmitReadReady(
            [submit(ex, DictGet(ex._read_pending, Head(handles)))
                EXCEPT !._read_pending = DictPop(@, Head(handles))],
            Tail(handles))

\* for handle in write_ready: self.submit(self._write_pending.pop(handle))
RECURSIVE SubmitWriteReady(_, _)
SubmitWriteReady(ex, handles) ==
    IF handles = <<>> THEN ex
    ELSE SubmitWriteReady(
            [submit(ex, DictGet(ex._write_pending, Head(handles)))
                EXCEPT !._write_pending = DictPop(@, Head(handles))],
            Tail(handles))

\* Fault variant of the timer loop: an entry is due only after its deadline.
RECURSIVE PopDue_StrictlyAfter(_, _)
PopDue_StrictlyAfter(ex, now) ==
    IF ex._scheduled # <<>> /\ now > ex._scheduled[1][1]
    THEN PopDue_StrictlyAfter([submit(ex, Last(ex._scheduled)[2])
                                  EXCEPT !._scheduled = Front(@)], now)
    ELSE ex

\* Fault variant of the timer loop: the entry is popped and not submitted.
RECURSIVE PopDue_Drops(_, _)
PopDue_Drops(ex, now) ==
    IF ex._scheduled # <<>> /\ now >= ex._scheduled[1][1]
    THEN PopDue_Drops([ex EXCEPT !._scheduled = Front(@)], now)
    ELSE ex

\* The timer loop of run(): while the head entry is due, pop() an entry and
\* submit its coroutine. deque.pop() removes the rightmost entry.
RECURSIVE PopDue(_, _)
PopDue(ex, now) ==
    IF ex._scheduled # <<>> /\ now >= ex._scheduled[1][1]
    THEN PopDue([submit(ex, Last(ex._scheduled)[2])
                    EXCEPT !._scheduled = Front(@)], now)
    ELSE ex

\* Fault variant of the polling pass: every read-waiter is taken as ready.
PollPass_AllReaders(ex, now) ==
    LET read_ready == DictKeys(ex._read_pending)
        write_ready == SelectSeq(DictKeys(ex._write_pending), WriteReady)
    IN PopDue(SubmitWriteReady(SubmitReadReady(ex, read_ready), write_ready), now)

\* Fault variant of the polling pass: the timer loop runs before the two
\* loops over the ready handles.
PollPass_TimersFirst(ex, now) ==
    LET read_ready == SelectSeq(DictKeys(ex._read_pending), ReadReady)
        write_ready == SelectSeq(DictKeys(ex._write_pending), WriteReady)
    IN SubmitWriteReady(SubmitReadReady(PopDue(ex, now), read_ready), write_ready)

\* One pass of select and the loops after it.
PollPass(ex, now) ==
    LET read_ready == SelectSeq(DictKeys(ex._read_pending), ReadReady)
        write_ready == SelectSeq(DictKeys(ex._write_pending), WriteReady)
    IN PopDue(SubmitWriteReady(SubmitReadReady(ex, read_ready), write_ready), now)

\* ---------------------------------------------------------------- coroutines
NoTask == [kind |-> "none", pc |-> "unborn", sock |-> 0, data |-> <<>>, wake |-> 0, n |-> 0]
\* Fault variant of coroutine creation: the body runs up to its first bare yield
\* as soon as the coroutine object is made.
NewTask_Eager(kind, sock) == [NoTask EXCEPT !.kind = kind, !.pc = "yielded", !.sock = sock]

\* Calling an async function makes the coroutine object; its body has not run.
NewTask(kind, sock) == [NoTask EXCEPT !.kind = kind, !.pc = "start", !.sock = sock]
DoneTask(tk) == [NoTask EXCEPT !.kind = tk.kind, !.pc = "done"]
FailedTask(tk) == [NoTask EXCEPT !.kind = tk.kind, !.pc = "failed"]

Unborn(t) == task[t].pc = "unborn"
Live(t) == task[t].pc \notin {"unborn", "done", "failed"}
Sleeping(t) == task[t].pc \in {"sleep1", "sleep2", "sleeping"}

\* The waiters a registration on (table, handle) overwrites.
Overwritten(table, handle) ==
    IF DictHas(table, handle) THEN {DictGet(table, handle)} ELSE {}

\* Fault variant of the resume step: a coroutine that raised is re-submitted too.
AfterSend_ResubmitsFailed(ex, outcome) ==
    IF outcome # "stop" /\ ex.current # None
    THEN [submit(ex, ex.current) EXCEPT !.current = None]
    ELSE ex

\* What run() does once self.current.send(None) has come back:
\* re-submit a coroutine that yielded without suspending itself, swallow
\* StopIteration, let any other exception out.
AfterSend(ex, outcome) ==
    IF outcome = "yield" /\ ex.current # None
    THEN [submit(ex, ex.current) EXCEPT !.current = None]
    ELSE ex

NoNet == UNCHANGED <<backlog, conn>>

\* foo and bar: print, sleep, print, sleep, print.
TimerDemo(t, ex, first, second, third) ==
    /\ NoNet
    /\ UNCHANGED <<submitted, displaced>>
    /\ \/ /\ task[t].pc = "start"
          /\ output' = Append(output, first)
          /\ executor' = AfterSend(async_sleep(ex, clock, SleepDuration), "yield")
          /\ task' = [task EXCEPT ![t].pc = "sleep1", ![t].wake = clock + SleepDuration]
          /\ UNCHANGED finished
          /\ suspended' = TRUE
       \/ /\ task[t].pc = "sleep1"
          /\ output' = Append(output, second)
          /\ executor' = AfterSend(async_sleep(ex, clock, SleepDuration), "yield")
          /\ task' = [task EXCEPT ![t].pc = "sleep2", ![t].wake = clock + SleepDuration]
          /\ UNCHANGED finished
          /\ suspended' = TRUE
       \/ /\ task[t].pc = "sleep2"
          /\ output' = Append(output, third)
          /\ executor' = AfterSend(ex, "stop")
          /\ task' = [task EXCEPT ![t] = DoneTask(@)]
          /\ finished' = Append(finished, t)
          /\ UNCHANGED suspended
    /\ pc' = "while"

foo(t, ex) == TimerDemo(t, ex, "a", "b", "c")

bar(t, ex) == TimerDemo(t, ex, "x", "y", "z")

\* Fault variant of the reply: the prefix is left out.
EchoReply_NoPrefix(data) == data

\* b'echo ' + data
EchoReply(data) == EchoPrefix \o data

\* The coroutine object echo_handler(client_sock) that tcp_server creates.
HandlerOf(c) == ServerTask + c

\* tcp_server: open the listening socket, then accept and spawn handlers forever.
tcp_server(t, ex) ==
    /\ UNCHANGED <<output, finished>>
    /\ suspended' = TRUE
    /\ pc' = "while"
    /\ \/ /\ task[t].pc = "start"
          /\ executor' = AfterSend(accept(ex, Listener), "yield")
          /\ displaced' = displaced \cup Overwritten(ex._read_pending, Listener)
          /\ task' = [task EXCEPT ![t].pc = "accepting", ![t].sock = Listener]
          /\ UNCHANGED <<backlog, conn, submitted>>
       \/ /\ task[t].pc = "accepting"
          /\ backlog # <<>>            \* sock.accept() blocks on an empty queue
          /\ LET c == Head(backlog)
                 spawned == submit(ex, HandlerOf(c))
             IN /\ backlog' = Tail(backlog)
                /\ conn' = [conn EXCEPT ![c].st = "open"]
                /\ task' = [task EXCEPT ![HandlerOf(c)] = NewTask("echo_handler", c)]
                /\ submitted' = Append(submitted, HandlerOf(c))
                /\ executor' = AfterSend(accept(spawned, Listener), "yield")
                /\ displaced' = displaced \cup Overwritten(spawned._read_pending, Listener)

\* echo_handler: recv; on data send b'echo ' + data and recv again; on b'' close.
echo_handler(t, ex) ==
    LET sock == task[t].sock IN
    /\ UNCHANGED <<output, backlog, submitted>>
    /\ pc' = "while"
    /\ \/ /\ task[t].pc = "start"
          /\ executor' = AfterSend(recv(ex, sock), "yield")
          /\ displaced' = displaced \cup Overwritten(ex._read_pending, sock)
          /\ task' = [task EXCEPT ![t].pc = "recving"]
          /\ suspended' = TRUE
          /\ UNCHANGED <<conn, finished>>
       \/ /\ task[t].pc = "recving"
          /\ ReadReady(sock)           \* sock.recv() blocks until then
          /\ LET data == Take(conn[sock].inbuf, MaxBytes) IN
             IF data = <<>>
             THEN /\ conn' = [conn EXCEPT ![sock].st = "closed"]
                  /\ executor' = AfterSend(ex, "stop")
                  /\ task' = [task EXCEPT ![t] = DoneTask(@)]
                  /\ finished' = Append(finished, t)
                  /\ UNCHANGED <<suspended, displaced>>
             ELSE /\ conn' = [conn EXCEPT ![sock].inbuf = Drop(@, MaxBytes)]
                  /\ executor' = AfterSend(send(ex, sock), "yield")
                  /\ displaced' = displaced \cup Overwritten(ex._write_pending, sock)
                  /\ task' = [task EXCEPT ![t].pc = "sending", ![t].data = EchoReply(data)]
                  /\ suspended' = TRUE
                  /\ UNCHANGED finished
       \/ /\ task[t].pc = "sending"
          /\ conn' = [conn EXCEPT ![sock].writes = Append(@, task[t].data)]
          /\ executor' = AfterSend(recv(ex, sock), "yield")
          /\ displaced' = displaced \cup Overwritten(ex._read_pending, sock)
          /\ task' = [task EXCEPT ![t].pc = "recving", ![t].data = <<>>]
          /\ suspended' = TRUE
          /\ UNCHANGED finished

\* A coroutine of the generic workload: whatever primitive it is suspended in
\* completes, it may spawn one coroutine, then it suspends again, yields bare,
\* returns or raises.
GenData == <<120>>
GenOps(t) ==
    {[op |-> o, arg |-> 0] : o \in {"return", "raise"}}
    \cup IF task[t].n < MaxSteps
         THEN {[op |-> "sleep", arg |-> d] : d \in 0..MaxSleep}
              \cup {[op |-> o, arg |-> h] : o \in {"recv", "send"}, h \in GenConns}
              \cup {[op |-> "yield", arg |-> 0]}
         ELSE {}

gen(t, ex) ==
    /\ UNCHANGED <<output, backlog>>
    /\ task[t].pc = "recving" => ReadReady(task[t].sock)
    /\ \E child \in {None} \cup {u \in GenTasks : Unborn(u)}, o \in GenOps(t) :
        LET ex1 == IF child = None THEN ex ELSE submit(ex, child)
            born == IF child = None THEN task
                    ELSE [task EXCEPT ![child] = NewTask("gen", 0)]
            step == [born[t] EXCEPT !.n = @ + 1, !.data = <<>>, !.wake = 0]
        IN
        /\ submitted' = IF child = None THEN submitted ELSE Append(submitted, child)
        /\ conn' = CASE task[t].pc = "recving" ->
                          [conn EXCEPT ![task[t].sock].inbuf = Drop(@, MaxBytes)]
                     [] task[t].pc = "sending" ->
                          [conn EXCEPT ![task[t].sock].writes = Append(@, task[t].data)]
                     [] OTHER -> conn
        /\ CASE o.op = "sleep" ->
                  /\ executor' = AfterSend(async_sleep(ex1, clock, o.arg), "yield")
                  /\ task' = [born EXCEPT ![t] = [step EXCEPT !.pc = "sleeping",
                                                   !.wake = clock + o.arg, !.sock = 0]]
                  /\ UNCHANGED <<displaced, finished>>
                  /\ suspended' = TRUE
                  /\ pc' = "while"
             [] o.op = "recv" ->
                  /\ executor' = AfterSend(recv(ex1, o.arg), "yield")
                  /\ displaced' = displaced \cup Overwritten(ex1._read_pending, o.arg)
                  /\ task' = [born EXCEPT ![t] = [step EXCEPT !.pc = "recving", !.sock = o.arg]]
                  /\ UNCHANGED finished
                  /\ suspended' = TRUE
                  /\ pc' = "while"
             [] o.op = "send" ->
                  /\ executor' = AfterSend(send(ex1, o.arg), "yield")
                  /\ displaced' = displaced \cup Overwritten(ex1._write_pending, o.arg)
                  /\ task' = [born EXCEPT ![t] = [step EXCEPT !.pc = "sending",
                                                   !.sock = o.arg, !.data = GenData]]
                  /\ UNCHANGED finished
                  /\ suspended' = TRUE
                  /\ pc' = "while"
             [] o.op = "yield" ->
                  /\ executor' = AfterSend(ex1, "yield")
                  /\ task' = [born EXCEPT ![t] = [step EXCEPT !.pc = "yielded", !.sock = 0]]
                  /\ UNCHANGED <<displaced, finished>>
                  /\ suspended' = TRUE
                  /\ pc' = "while"
             [] o.op = "return" ->
                  /\ executor' = AfterSend(ex1, "stop")
                  /\ task' = [born EXCEPT ![t] = DoneTask(@)]
                  /\ finished' = Append(finished, t)
                  /\ UNCHANGED <<displaced, suspended>>
                  /\ pc' = "while"
             [] o.op = "raise" ->
                  /\ executor' = AfterSend(ex1, "raise")
                  /\ task' = [born EXCEPT ![t] = FailedTask(@)]
                  /\ UNCHANGED <<displaced, finished, suspended>>
                  /\ pc' = "raised"

\* ------------------------------------------------------- launcher and run()
\* executor.submit(<coroutine>) at module level.
Launch ==
    /\ pc = "launch"
    /\ to_launch # <<>>
    /\ LET t == Head(to_launch) IN
        /\ executor' = submit(executor, t)
        /\ task' = [task EXCEPT ![t].pc = "start"]
        /\ submitted' = Append(submitted, t)
    /\ to_launch' = Tail(to_launch)
    /\ UNCHANGED <<pc, timeout, poll_start, clock, backlog, conn, output, finished,
                   suspended, displaced>>

\* executor.run() is called.
CallRun ==
    /\ pc = "launch"
    /\ to_launch = <<>>
    /\ pc' = "while"
    /\ UNCHANGED <<executor, timeout, poll_start, clock, task, to_launch, backlog, conn,
                   output, submitted, finished, suspended, displaced>>

\* The loop test, and with an empty ready queue the timeout for select.
RunWhile ==
    /\ pc = "while"
    /\ IF ~AnyPending(executor)
       THEN pc' = "returned" /\ UNCHANGED <<timeout, poll_start>>
       ELSE IF executor._ready = <<>>
            THEN /\ pc' = "select"
                 /\ timeout' = Timeout(executor, clock)
                 /\ poll_start' = clock
            ELSE pc' = "resume" /\ UNCHANGED <<timeout, poll_start>>
    /\ UNCHANGED <<executor, clock, task, to_launch, backlog, conn, output, submitted,
                   finished, suspended, displaced>>

\* select returns; ready handles and due timers are submitted.
RunPoll ==
    /\ pc = "select"
    /\ SelectReturns(executor)
    /\ executor' = PollPass(executor, clock)
    /\ pc' = "resume"
    /\ timeout' = NoTimeout
    /\ poll_start' = 0
    /\ UNCHANGED <<clock, task, to_launch, backlog, conn, output, submitted, finished,
                   suspended, displaced>>

\* The coroutine at the head of the ready queue is stepped once.
RunResume ==
    /\ pc = "resume"
    /\ UNCHANGED <<timeout, poll_start, clock, to_launch>>
    /\ IF executor._ready = <<>>
       THEN \* popleft() of an empty deque raises IndexError
            /\ pc' = "raised"
            /\ UNCHANGED <<executor, task, backlog, conn, output, submitted, finished,
                           suspended, displaced>>
       ELSE LET t == Head(executor._ready)
                ex == [executor EXCEPT !._ready = Tail(@), !.current = t]
            IN CASE task[t].kind = "foo" -> foo(t, ex)
                 [] task[t].kind = "bar" -> bar(t, ex)
                 [] task[t].kind = "tcp_server" -> tcp_server(t, ex)
                 [] task[t].kind = "echo_handler" -> echo_handler(t, ex)
                 [] task[t].kind = "gen" -> gen(t, ex)

\* --------------------------------------------------------------- environment
Running == pc \in {"while", "select", "resume"}

\* run() looks at the sockets in select and a coroutine when it is resumed:
\* what happens on the network elsewhere shows at one of these two points.
NetTurn == pc \in {"select", "resume"}

\* Time passes: freely up to MaxTime, and for as long as select sleeps on a timeout.
\* run() reads the clock after its loop test and after select, a coroutine when
\* it is resumed: the time that passes elsewhere shows at one of these points.
Tick ==
    /\ pc \in {"while", "select"}
    /\ \/ clock < MaxTime
       \/ pc = "select" /\ timeout # NoTimeout /\ clock < poll_start + timeout
    /\ clock' = clock + 1
    /\ UNCHANGED <<executor, pc, timeout, poll_start, task, to_launch, backlog, conn,
                   output, submitted, finished, suspended, displaced>>

Listening == \E t \in Tasks : task[t].kind = "tcp_server" /\ task[t].pc = "accepting"

NoExec == UNCHANGED <<executor, pc, timeout, poll_start, clock, task, to_launch, output,
                      submitted, finished, suspended, displaced>>

\* A client connects to the listening socket.
ClientConnect(c) ==
    /\ NetTurn /\ Listening
    /\ conn[c].st = "idle"
    /\ conn' = [conn EXCEPT ![c].st = "backlog"]
    /\ backlog' = Append(backlog, c)
    /\ NoExec

RECURSIVE ChunksSent(_)
ChunksSent(n) == IF n = 0 THEN 0 ELSE conn[n].nsent + ChunksSent(n - 1)

\* A client sends a chunk.
ClientSend(c, chunk) ==
    /\ NetTurn
    /\ conn[c].st \in {"backlog", "open"} /\ ~conn[c].eof
    /\ ChunksSent(Max(NConns, NHandles)) < MaxSends
    /\ conn' = [conn EXCEPT ![c].inbuf = @ \o chunk, ![c].sent = @ \o chunk,
                            ![c].nsent = @ + 1]
    /\ UNCHANGED backlog
    /\ NoExec

\* A client closes its side.
ClientClose(c) ==
    /\ NetTurn
    /\ conn[c].st \in {"backlog", "open"} /\ ~conn[c].eof
    /\ conn' = [conn EXCEPT ![c].eof = TRUE]
    /\ UNCHANGED backlog
    /\ NoExec

\* The send buffer of a connection fills up. Only select on a registered
\* write-waiter observes it, so it is taken once a coroutine waits to write.
BufferFills(c) ==
    /\ NetTurn
    /\ DictHas(executor._write_pending, c)
    /\ ~conn[c].full
    /\ conn' = [conn EXCEPT ![c].full = TRUE]
    /\ UNCHANGED backlog
    /\ NoExec

\* The peer reads and the send buffer has room again.
BufferDrains(c) ==
    /\ NetTurn
    /\ conn[c].full
    /\ conn' = [conn EXCEPT ![c].full = FALSE]
    /\ UNCHANGED backlog
    /\ NoExec

\* ------------------------------------------------------------ specifications
NewConn(st) == [st |-> st, inbuf |-> <<>>, eof |-> FALSE, full |-> FALSE,
                sent |-> <<>>, nsent |-> 0, writes |-> <<>>]

InitCommon ==
    /\ executor = NewExecutor
    /\ pc = "launch"
    /\ timeout = NoTimeout
    /\ poll_start = 0
    /\ clock = 0
    /\ backlog = <<>>
    /\ output = <<>>
    /\ submitted = <<>>
    /\ finished = <<>>
    /\ suspended = FALSE
    /\ displaced = {}

\* Sequences of distinct elements of S.
Orders(S) == UNION {{f \in [1..k -> S] : \A i, j \in 1..k : f[i] = f[j] => i = j}
                    : k \in 0..Cardinality(S)}

\* The generic workload: any coroutines, launched in any order, on open connections.
Init ==
    /\ InitCommon
    /\ task = [t \in Tasks |-> [NoTask EXCEPT !.kind = IF t \in GenTasks THEN "gen" ELSE "none"]]
    /\ to_launch \in Orders(GenTasks)
    /\ conn = [c \in Conns |-> NewConn("open")]

Executor == Launch \/ CallRun \/ RunWhile \/ RunPoll \/ RunResume

\* A generic coroutine ignores the bytes it reads, so here the network shows
\* only in what select reports: data arrives while run() is in select, and the
\* send buffers always have room.
DataArrives ==
    /\ pc = "select"
    /\ \E c \in GenConns : conn[c].inbuf = <<>> /\ ClientSend(c, GenData)

Next == Executor \/ Tick \/ DataArrives

Spec == Init /\ [][Next]_vars

\* The timer demo: foo and bar alone, foo submitted first.
InitDemo ==
    /\ InitCommon
    /\ task = [t \in Tasks |-> [NoTask EXCEPT !.kind = CASE t = FooTask -> "foo"
                                                        [] t = BarTask -> "bar"
                                                        [] OTHER -> "none"]]
    /\ to_launch = <<FooTask, BarTask>>
    /\ conn = [c \in Conns |-> NewConn("idle")]

NextDemo == Executor \/ Tick

SpecDemo == InitDemo /\ [][NextDemo]_vars

\* The echo service: tcp_server alone, clients come and go.
InitEcho ==
    /\ InitCommon
    /\ task = [t \in Tasks |-> [NoTask EXCEPT !.kind = IF t = ServerTask THEN "tcp_server" ELSE "none"]]
    /\ to_launch = <<ServerTask>>
    /\ conn = [c \in Conns |-> NewConn("idle")]

\* No coroutine of the echo service reads the clock: it stands still here.
NextEcho ==
    \/ Executor
    \/ \E c \in EchoConns : ClientConnect(c)
    \/ \E c \in EchoConns, chunk \in Chunks : ClientSend(c, chunk)
    \/ \E c \in EchoConns : ClientClose(c)
    \/ \E c \in EchoConns : BufferFills(c)
    \/ \E c \in EchoConns : BufferDrains(c)

SpecEcho == InitEcho /\ [][NextEcho]_vars

\* SpecDemo with the scheduling the program has: run() keeps executing on its
\* one thread, and time passes.
SpecDemoFair == SpecDemo /\ WF_vars(Executor) /\ WF_vars(Tick)

\* Spec with the scheduling the program has: run() keeps executing on its one
\* thread, and time passes.
SpecFair == Spec /\ WF_vars(Executor) /\ WF_vars(Tick)

\* -------------------------------------------------------------------- claims
ReadyTasks == Range(executor._ready)
TimerSeq(ex) == [i \in DOMAIN ex._scheduled |-> ex._scheduled[i][2]]

\* The number of references the four containers and the current marker hold to t.
RefCount(t) ==
    Count(executor._ready, t)
    + Count(TimerSeq(executor), t)
    + Count(DictValues(executor._read_pending), t)
    + Count(DictValues(executor._write_pending), t)
    + (IF executor.current = t THEN 1 ELSE 0)

AllEmpty ==
    /\ executor._ready = <<>>
    /\ executor._scheduled = <<>>
    /\ executor._read_pending = <<>>
    /\ executor._write_pending = <<>>

InReadTable(t) ==
    \E i \in DOMAIN executor._read_pending : executor._read_pending[i] = <<task[t].sock, t>>

\* The step that is one polling pass of run().
PollStep == pc = "select" /\ pc' = "resume"

\* C1 as claimed: while run() executes, every submitted, unterminated task is
\* referenced by exactly one of the ready queue, the timer queue, the two wait
\* tables and the current marker.
C1_ExactlyOneReference ==
    Running => \A t \in Tasks : Live(t) => RefCount(t) = 1

\* C1 amended: while run() executes, every submitted, unterminated task is
\* referenced at most once, and by none exactly when a later registration on
\* the same handle and direction has overwritten its wait-table entry.
C1_ExactlyOneUnlessOverwritten ==
    Running => \A t \in Tasks :
        Live(t) => RefCount(t) = (IF t \in displaced THEN 0 ELSE 1)

C1_Witness ==
    /\ pc = "select"
    /\ displaced # {}
    /\ executor._scheduled # <<>>
    /\ executor._read_pending # <<>>
    /\ \A t \in GenTasks : Live(t)

\* C2: in a polling pass, of two timer entries with deadlines t1 < t2 the later
\* one is moved to the ready queue only behind the earlier one, so that the
\* earlier task is resumed first (the ready queue is resumed from its head).
C2_EarlierDeadlineFirst ==
    [][PollStep =>
        \A i, j \in DOMAIN executor._scheduled :
            LET A == executor._scheduled[i]
                B == executor._scheduled[j]
            IN (A[1] < B[1] /\ B[2] \in Range(executor'._ready))
                => /\ A[2] \in Range(executor'._ready)
                   /\ Index(executor'._ready, A[2]) < Index(executor'._ready, B[2])]_vars

\* C3: of two timer entries with equal deadlines, the one scheduled first stands
\* first in the timer queue and is moved to the ready queue ahead of the other.
C3_TiesInInsertionOrder ==
    [][PollStep =>
        \A i, j \in DOMAIN executor._scheduled :
            LET A == executor._scheduled[i]
                B == executor._scheduled[j]
            IN (i < j /\ A[1] = B[1] /\ B[2] \in Range(executor'._ready))
                => /\ A[2] \in Range(executor'._ready)
                   /\ Index(executor'._ready, A[2]) < Index(executor'._ready, B[2])]_vars

\* C4: a task that sleeps until its deadline is in the ready queue only once
\* that deadline has been reached: an entry leaves the timer queue only when
\* its own deadline is due.
C4_NeverResumedEarly ==
    \A t \in Tasks : (Sleeping(t) /\ t \in ReadyTasks) => task[t].wake <= clock

\* C5: run() leaves its loop test by returning exactly when the ready queue,
\* the timer queue and both wait tables are all empty, and once returned they
\* are empty.
C5_ReturnsIffAllEmpty ==
    /\ [][(pc = "while" /\ pc' # "while") => (pc' = "returned" <=> AllEmpty)]_vars
    /\ [](pc = "returned" => AllEmpty)

C5_Witness ==
    /\ pc = "returned"
    /\ suspended
    /\ Len(finished) = NTasks

\* C6: with foo and bar alone, run() eventually returns.
C6_DemoTerminates == <>(pc = "returned")

C6_Witness == pc = "returned" /\ Len(output) = 6 /\ finished # <<>>

NeverSuspended == ~suspended /\ \A t \in Tasks : task[t].pc # "failed"

\* C7: as long as no task has suspended, the tasks completed so far followed
\* by the tasks still queued are the tasks in the order of their submit calls:
\* they run one after the other in submission order, and run() returns with
\* all of them completed.
C7_SubmissionOrder ==
    NeverSuspended =>
        /\ finished \o executor._ready = submitted
        /\ pc = "returned" => finished = submitted

C7_Witness ==
    /\ pc = "returned"
    /\ NeverSuspended
    /\ Len(finished) = NTasks
    /\ finished # <<1, 2, 3>>

\* C8 as claimed: a task suspended in recv stays in the read-wait table, and
\* out of the ready queue, until a polling pass finds its handle read-ready.
C8_StaysUntilReported ==
    [][\A t \in Tasks :
        (task[t].pc = "recving" /\ InReadTable(t)) =>
            /\ t \notin ReadyTasks
            /\ \/ InReadTable(t)' /\ t \notin Range(executor'._ready)
               \/ PollStep /\ ReadReady(task[t].sock) /\ t \in Range(executor'._ready)]_vars

\* C8 amended: a task suspended in recv enters the ready queue only in a
\* polling pass that finds its own handle read-ready, and until then it stays
\* in the read-wait table unless a later registration on that handle
\* overwrites its entry.
C8_ReadyOnlyWhenReported ==
    [][\A t \in Tasks :
        (task[t].pc = "recving" /\ t \notin ReadyTasks) =>
            /\ t \in Range(executor'._ready)
                => PollStep /\ ReadReady(task[t].sock) /\ InReadTable(t)
            /\ (InReadTable(t) /\ ~InReadTable(t)')
                => \/ PollStep /\ ReadReady(task[t].sock) /\ t \in Range(executor'._ready)
                   \/ t \in displaced' \ displaced]_vars

\* A recv-waiter stays put while a write-waiter on the same handle and a
\* read-waiter on another handle have been made ready.
C8_Witness ==
    \E t, u \in Tasks :
        /\ task[t].pc = "recving" /\ InReadTable(t)
        /\ u \in ReadyTasks
        /\ \/ task[u].pc = "sending" /\ task[u].sock = task[t].sock
           \/ task[u].pc = "recving" /\ task[u].sock # task[t].sock
        /\ \E v \in ReadyTasks : task[v].pc = "sleeping"

\* C9: foo and bar print a, x, b, y, c, z in this order.
C9_DemoOutput == IsPrefix(output, <<"a", "x", "b", "y", "c", "z">>)

\* The bytes the server echoed on a connection: its writes without their prefix.
RECURSIVE EchoedBytes(_)
EchoedBytes(writes) ==
    IF writes = <<>> THEN <<>>
    ELSE Drop(Head(writes), Len(EchoPrefix)) \o EchoedBytes(Tail(writes))

\* The bytes a handler has received and not yet written.
BeingEchoed(c) ==
    IF task[HandlerOf(c)].pc = "sending"
    THEN Drop(task[HandlerOf(c)].data, Len(EchoPrefix)) ELSE <<>>

ListenerRegistered ==
    \E i \in DOMAIN executor._read_pending :
        executor._read_pending[i] = <<Listener, ServerTask>>

\* The listener waits for connections: registered on the listening socket, or
\* already in the ready queue with a connection to accept.
ListenerWaiting ==
    /\ task[ServerTask].pc = "accepting"
    /\ RefCount(ServerTask) = 1
    /\ \/ ListenerRegistered
       \/ ServerTask \in ReadyTasks /\ backlog # <<>>

\* Every write is b'echo ' and a non-empty chunk; the chunks echoed, the chunk
\* being echoed and the bytes still buffered are the bytes the client sent, so
\* a handler waiting in recv has echoed all it received; a handler that ended
\* has closed its handle after the client closed, with everything echoed.
EchoExact(c) ==
    /\ \A i \in DOMAIN conn[c].writes :
        /\ Len(conn[c].writes[i]) > Len(EchoPrefix)
        /\ Take(conn[c].writes[i], Len(EchoPrefix)) = EchoPrefix
    /\ EchoedBytes(conn[c].writes) \o BeingEchoed(c) \o conn[c].inbuf = conn[c].sent
    /\ task[HandlerOf(c)].pc = "done" =>
        /\ conn[c].st = "closed"
        /\ conn[c].eof
        /\ EchoedBytes(conn[c].writes) = conn[c].sent

\* The listener, when resumed, accepts the connection at the head of the
\* backlog, submits its handler and registers itself again.
ListenerAccepts ==
    (/\ pc = "resume"
     /\ executor._ready # <<>>
     /\ Head(executor._ready) = ServerTask
     /\ task[ServerTask].pc = "accepting"
     /\ pc' = "while")
    => /\ backlog # <<>>
       /\ conn'[Head(backlog)].st = "open"
       /\ HandlerOf(Head(backlog)) \in Range(executor'._ready)
       /\ ListenerRegistered'

\* The step in which the handler of connection c ends.
HandlerEnds(c) == task[HandlerOf(c)].pc # "done" /\ task'[HandlerOf(c)].pc = "done"

\* C10 as claimed: every chunk is echoed exactly; a handler whose client closed
\* closes and ends without further output, and as it ends the listener is
\* registered as read-waiter on the listening socket; the listener accepts
\* later connections.
C10_EchoAndListenerRegistered ==
    /\ [](\A c \in EchoConns : EchoExact(c))
    /\ [][\A c \in EchoConns : HandlerEnds(c) => ListenerRegistered']_vars
    /\ [][ListenerAccepts]_vars

\* C10 amended: as claimed, except that as a handler ends the listener is
\* registered as read-waiter on the listening socket or is already in the
\* ready queue with a pending connection to accept.
C10_EchoAndListenerWaiting ==
    /\ [](\A c \in EchoConns : EchoExact(c))
    /\ [][\A c \in EchoConns : HandlerEnds(c) => ListenerWaiting']_vars
    /\ [][ListenerAccepts]_vars

\* One handler echoed two chunks in one write and ended after its client
\* closed, and a connection made after that has been accepted.
C10_Witness ==
    \E c, d \in EchoConns :
        /\ task[HandlerOf(c)].pc = "done"
        /\ conn[c].writes = <<EchoPrefix \o <<104, 105, 104, 105>>>>
        /\ finished = <<HandlerOf(c)>>
        /\ task[HandlerOf(d)].pc = "recving"
        /\ ListenerRegistered

\* Whether one of the four containers of ex references t.
InContainers(ex, t) ==
    \/ t \in Range(ex._ready)
    \/ t \in Range(TimerSeq(ex))
    \/ t \in Range(DictValues(ex._read_pending))
    \/ t \in Range(DictValues(ex._write_pending))

\* The step in which the resumed coroutine lets an exception out.
TaskRaises ==
    /\ pc = "resume"
    /\ executor._ready # <<>>
    /\ task'[Head(executor._ready)].pc = "failed"

\* The step in which the resumed coroutine returns.
TaskReturns ==
    /\ pc = "resume"
    /\ executor._ready # <<>>
    /\ task'[Head(executor._ready)].pc = "done"

\* What a resume step leaves of the containers when the coroutine registers
\* nothing: the timer queue and the wait tables as they were, the ready queue
\* without its head, followed only by coroutines the resumed one spawned.
OthersStay ==
    /\ executor'._scheduled = executor._scheduled
    /\ executor'._read_pending = executor._read_pending
    /\ executor'._write_pending = executor._write_pending
    /\ IsPrefix(Tail(executor._ready), executor'._ready)
    /\ \A u \in Range(Drop(executor'._ready, Len(executor._ready) - 1)) : Unborn(u)

\* C11: when a resumed task raises, run() stops with that error: nothing is
\* resumed afterwards, the failing task is in no container and every other
\* task is where it was; a task that returns is dropped and the loop goes on.
C11_RaiseStopsRun ==
    /\ [][TaskRaises =>
            /\ pc' = "raised"
            /\ ~InContainers(executor', Head(executor._ready))
            /\ OthersStay]_vars
    /\ [][pc # "raised"]_vars
    /\ [][TaskReturns =>
            /\ pc' = "while"
            /\ ~InContainers(executor', Head(executor._ready))
            /\ OthersStay]_vars

\* run() has stopped on a coroutine's exception with others still queued and
\* still sleeping or waiting.
C11_Witness ==
    /\ pc = "raised"
    /\ \E t \in GenTasks : task[t].pc = "failed" /\ executor.current = t
    /\ executor._ready # <<>>
    /\ executor._scheduled # <<>> \/ executor._read_pending # <<>>

\* The coroutine run() is about to step.
Resumed == IF pc = "resume" /\ executor._ready # <<>> THEN Head(executor._ready) ELSE None

\* C12: one task runs at a time. Every step runs the code of at most one
\* coroutine, the one run() took from the head of the ready queue, up to its
\* next suspension point or its end; no other coroutine moves in that step (one
\* it creates stays at its start), what is written to a socket is written by
\* the resumed coroutine, and afterwards the current marker names no other task.
C12_OneTaskAtATime ==
    [][/\ \A u \in Tasks :
            task'[u] # task[u] =>
                \/ u = Resumed
                \/ Unborn(u) /\ task'[u].pc = "start"
       /\ \A c \in Conns :
            conn'[c].writes # conn[c].writes =>
                Resumed # None /\ task[Resumed].pc = "sending" /\ task[Resumed].sock = c
       /\ executor'.current # executor.current => executor'.current \in {None, Resumed}
      ]_vars

\* A coroutine spawned by another waits at its start in the ready queue while
\* the others have run up to a suspension point.
C12_Witness ==
    /\ pc = "resume"
    /\ Len(submitted) = NTasks
    /\ \E u \in GenTasks :
        /\ task[u].pc = "start"
        /\ executor._ready = <<u>>
        /\ \A t \in GenTasks \ {u} : task[t].pc \in {"sleeping", "recving", "sending"}

\* The step in which the resumed coroutine t calls schedule with a deadline
\* that is not in the future: async_sleep(0).
SchedulesPastDue(t) ==
    /\ t = Resumed
    /\ task'[t].pc = "sleeping"
    /\ task'[t].wake <= clock

\* C13 as claimed: the cycle of run() that follows a schedule call with a
\* past-due deadline polls with timeout 0 and moves the task to the ready
\* queue. That cycle starts in the state the call leaves: it polls when the
\* ready queue is empty, with the timeout and the timer loop of that state.
C13_PoppedOnNextCycle ==
    [][\A t \in Tasks :
        SchedulesPastDue(t) =>
            /\ executor'._ready = <<>>
            /\ Timeout(executor', clock) = 0
            /\ t \in Range(PopDue(executor', clock)._ready)]_vars

\* C13 amended: a task scheduled with a past-due deadline stays in the timer
\* queue until the first cycle that finds the ready queue empty; that cycle
\* polls, with timeout 0, and its timer loop moves the task to the ready queue.
C13_PoppedOnNextPoll ==
    /\ [][\A t \in Tasks :
            SchedulesPastDue(t) => <<task'[t].wake, t>> \in Range(executor'._scheduled)]_vars
    /\ [][\A e \in Range(executor._scheduled) :
            e \notin Range(executor'._scheduled) => PollStep]_vars
    /\ [][(pc = "while" /\ pc' # "while" /\ executor._ready = <<>>
            /\ executor._scheduled # <<>>) => pc' = "select"]_vars
    /\ [][(pc = "while" /\ pc' = "select") =>
            \A e \in Range(executor._scheduled) : e[1] <= clock => timeout' = 0]_vars
    /\ [][PollStep =>
            \A e \in Range(executor._scheduled) :
                e[1] <= clock => /\ e \notin Range(executor'._scheduled)
                                 /\ e[2] \in Range(executor'._ready)]_vars

\* A coroutine slept for 0 at time 0, the coroutine queued behind it ran in
\* the next cycle, and the polling pass after that has made the sleeper ready.
C13_Witness ==
    /\ pc = "resume"
    /\ clock = 0
    /\ Len(submitted) >= 2
    /\ LET t == submitted[1]
           u == submitted[2]
       IN /\ task[t].pc = "sleeping" /\ task[t].wake = 0
          /\ t \in ReadyTasks
          /\ task[u].pc \in {"recving", "sending"}

\* Where the polling pass that is about to run finds t: 1 in the read-wait
\* table, 2 in the write-wait table, 3 in the timer queue.
FoundIn(t) ==
    CASE t \in Range(DictValues(executor._read_pending)) -> 1
      [] t \in Range(DictValues(executor._write_pending)) -> 2
      [] OTHER -> 3

\* The place of t among the entries of its wait table.
PlaceIn(t) ==
    CASE FoundIn(t) = 1 -> Index(DictValues(executor._read_pending), t)
      [] FoundIn(t) = 2 -> Index(DictValues(executor._write_pending), t)
      [] OTHER -> 0

\* C14: a polling pass starts with an empty ready queue and appends the tasks
\* of the read-ready handles, then those of the write-ready handles (each in
\* the order select lists them), then the tasks taken from the timer queue;
\* the ready queue grows only at its tail and shrinks only by the task at its
\* head being resumed, so tasks are resumed in the order they were appended.
C14_AppendOrderAndFifo ==
    /\ [][PollStep =>
            LET r == executor'._ready IN
            /\ executor._ready = <<>>
            /\ \A i, j \in DOMAIN r :
                i < j => \/ FoundIn(r[i]) < FoundIn(r[j])
                         \/ FoundIn(r[i]) = FoundIn(r[j]) /\ PlaceIn(r[i]) <= PlaceIn(r[j])
            /\ \A i \in DOMAIN r : InContainers(executor, r[i])]_vars
    /\ [][executor'._ready # executor._ready =>
            \/ IsPrefix(executor._ready, executor'._ready)
            \/ pc = "resume" /\ IsPrefix(Tail(executor._ready), executor'._ready)]_vars

\* One polling pass has made a reader, a writer and a sleeper ready, in this order.
C14_Witness ==
    /\ pc = "resume"
    /\ Len(executor._ready) = 3
    /\ task[executor._ready[1]].pc = "recving"
    /\ task[executor._ready[2]].pc = "sending"
    /\ task[executor._ready[3]].pc = "sleeping"

\* The wait-table entries a polling pass does not report.
NotReadReported(e) == ~ReadReady(e[1])
NotWriteReported(e) == ~WriteReady(e[1])

\* The resumed coroutine registers itself on handle h, to read or to write.
RegistersRead(h) ==
    /\ Resumed # None
    /\ task'[Resumed].pc \in {"accepting", "recving"}
    /\ task'[Resumed].sock = h
    /\ DictGet(executor'._read_pending, h) = Resumed
RegistersWrite(h) ==
    /\ Resumed # None
    /\ task'[Resumed].pc = "sending"
    /\ task'[Resumed].sock = h
    /\ DictGet(executor'._write_pending, h) = Resumed

\* C15: a polling pass removes from each wait table exactly the entries whose
\* handle select reports in that direction and submits the task of each once;
\* the other entries stay as they were, in their order; and a handle that is in
\* no wait table, so that select is not given it, comes back into one only by
\* a coroutine registering on it.
C15_PollFrame ==
    /\ [][PollStep =>
            /\ executor'._read_pending = SelectSeq(executor._read_pending, NotReadReported)
            /\ executor'._write_pending = SelectSeq(executor._write_pending, NotWriteReported)
            /\ \A e \in Range(executor._read_pending) :
                ReadReady(e[1]) => Count(executor'._ready, e[2]) = 1
            /\ \A e \in Range(executor._write_pending) :
                WriteReady(e[1]) => Count(executor'._ready, e[2]) = 1]_vars
    /\ [][\A h \in {Listener} \cup Conns :
            /\ (~DictHas(executor._read_pending, h) /\ DictHas(executor'._read_pending, h))
                => RegistersRead(h)
            /\ (~DictHas(executor._write_pending, h) /\ DictHas(executor'._write_pending, h))
                => RegistersWrite(h)]_vars

\* A polling pass has reported a connection and made its handler ready; a
\* handler on a silent connection is still in the read-wait table and a
\* handler whose send buffer is full still in the write-wait table.
C15_Witness ==
    /\ pc = "resume"
    /\ \E b, c, d \in EchoConns :
        /\ executor._ready = <<HandlerOf(b)>>
        /\ task[HandlerOf(b)].pc = "recving"
        /\ DictHas(executor._write_pending, c) /\ conn[c].full
        /\ DictHas(executor._read_pending, d) /\ ~ReadReady(d)

\* The resumed coroutine calls accept or recv (send) on handle h while the
\* table already holds a waiter for h.
SecondRead(h) ==
    /\ Resumed # None
    /\ DictHas(executor._read_pending, h)
    /\ task'[Resumed].pc \in {"accepting", "recving"}
    /\ task'[Resumed].sock = h
SecondWrite(h) ==
    /\ Resumed # None
    /\ DictHas(executor._write_pending, h)
    /\ task'[Resumed].pc = "sending"
    /\ task'[Resumed].sock = h

\* The entries of table d for handle h.
EntriesFor(d, h) == SelectSeq(d, LAMBDA e : e[1] = h)

\* C16: a second registration on a handle and direction that has a waiter
\* raises nothing and replaces the waiter: the table then maps the handle to
\* the second task alone, the first task is in no container, and from then on
\* it is never resumed: it never moves and never enters a container again.
C16_SecondRegistrationReplaces ==
    /\ [][\A h \in {Listener} \cup Conns :
            /\ SecondRead(h) =>
                /\ pc' = "while"
                /\ EntriesFor(executor'._read_pending, h) = <<<<h, Resumed>>>>
                /\ ~InContainers(executor', DictGet(executor._read_pending, h))
                /\ DictGet(executor._read_pending, h) \in displaced'
            /\ SecondWrite(h) =>
                /\ pc' = "while"
                /\ EntriesFor(executor'._write_pending, h) = <<<<h, Resumed>>>>
                /\ ~InContainers(executor', DictGet(executor._write_pending, h))
                /\ DictGet(executor._write_pending, h) \in displaced']_vars
    /\ [][\A t \in displaced :
            /\ task'[t] = task[t]
            /\ ~InContainers(executor', t)
            /\ executor'.current # t
            /\ t \in displaced']_vars

\* The second of two readers of one handle has been made ready by data on
\* that handle; the first, replaced, is still where it suspended.
C16_Witness ==
    \E t, u \in GenTasks :
        /\ t \in displaced
        /\ task[t].pc = "recving"
        /\ task[u].pc = "recving" /\ task[u].sock = task[t].sock
        /\ u \in ReadyTasks
        /\ pc = "resume"

\* The timer queue is in ascending order of deadline.
TimersSorted ==
    \A i, j \in DOMAIN executor._scheduled :
        i < j => executor._scheduled[i][1] <= executor._scheduled[j][1]

\* The least deadline over all entries of the timer queue.
MinDeadline ==
    CHOOSE m \in {e[1] : e \in Range(executor._scheduled)} :
        \A e \in Range(executor._scheduled) : m <= e[1]

\* C17: select is called only with an empty ready queue; its timeout is None
\* exactly when the timer queue is empty and otherwise max(0, m - now) for the
\* least deadline m of the queue; the timer queue is sorted by ascending
\* deadline in every state, after every schedule and every pop.
C17_PollTimeout ==
    /\ [](TimersSorted)
    /\ [](pc = "select" => executor._ready = <<>>)
    /\ [][(pc = "while" /\ pc' = "select") =>
            /\ timeout' = NoTimeout <=> executor._scheduled = <<>>
            /\ executor._scheduled # <<>> => timeout' = Max(0, MinDeadline - clock)]_vars

\* select is called with timeout 0 for a least deadline that has passed, with
\* a later deadline behind it in the timer queue.
C17_Witness ==
    /\ pc = "select"
    /\ timeout = 0
    /\ Len(executor._scheduled) >= 2
    /\ executor._scheduled[1][1] < clock
    /\ executor._scheduled[1][1] < executor._scheduled[2][1]

\* C18: whenever run() is at the popleft of the ready queue, the queue is not
\* empty: a polling pass is entered with an empty ready queue and leaves at
\* least one task in it, and run() never stops on popleft's IndexError.
C18_ReadyNonEmptyAtPopleft ==
    /\ [](pc = "resume" => executor._ready # <<>>)
    /\ [][PollStep => executor._ready = <<>> /\ executor'._ready # <<>>]_vars
    /\ [](pc = "raised" => \E t \in Tasks : task[t].pc = "failed")

\* select came back on its timeout alone, at the deadline, with no handle
\* waited on, and the polling pass has made the sleeper ready.
C18_Witness ==
    /\ pc = "resume"
    /\ clock > 0
    /\ executor._read_pending = <<>> /\ executor._write_pending = <<>>
    /\ \E t \in GenTasks :
        /\ executor._ready = <<t>>
        /\ task[t].pc = "sleeping" /\ task[t].wake = clock
    /\ \A t \in GenTasks : task[t].pc \in {"sleeping", "done"}

SomeFailed == \E u \in Tasks : task[u].pc = "failed"

\* The references the timer queue and the ready queue hold to t.
SleepRefs(t) == Count(TimerSeq(executor), t) + Count(executor._ready, t)

====
